---- MODULE Spec2Model ----
(***************************************************************************)
(* Towers of Hanoi (src/src/main.rs): the puzzle State, its move           *)
(* validation and the incremental auto-solver do_auto.                     *)
(*                                                                         *)
(* A State is a record [left, center, right] of sequences of disk sizes,   *)
(* bottom of the peg first.  Option values are sequences of length <= 1,   *)
(* Result values are records [kind, peg, disk].                            *)
(***************************************************************************)
EXTENDS Integers, Sequences, FiniteSets, TLC

\* Largest number of disks explored by Spec and SpecResume.
MaxDisks == 4
\* Largest number of disks explored by SpecAuto (auto-solver alone).
MaxAutoDisks == 6

\* u8::max_value()
U8Max == 255

\* const START_SIZE
START_SIZE == 3

\* enum Peg
Peg == {"Left", "Center", "Right"}

\* struct Move
Move(from, to) == [from |-> from, to |-> to]

\* Option<T>
None == <<>>
Some(x) == <<x>>

\* enum NextStep, wrapped in Ok
Win == [kind |-> "Win", peg |-> "-", disk |-> 0]
Continue == [kind |-> "Continue", peg |-> "-", disk |-> 0]
\* Ok(()) of push_disk
OkUnit == [kind |-> "Ok", peg |-> "-", disk |-> 0]
\* enum HanoiError, wrapped in Err
UnstableStack(peg, disk) == [kind |-> "UnstableStack", peg |-> peg, disk |-> disk]
EmptyFrom(peg) == [kind |-> "EmptyFrom", peg |-> peg, disk |-> 0]
AlreadyDone == [kind |-> "AlreadyDone", peg |-> "-", disk |-> 0]
\* A panic (unwrap on None, failed assert_eq!, unreachable!): the process aborts.
Panic == [kind |-> "Panic", peg |-> "-", disk |-> 0]

IsOk(res) == res.kind \in {"Win", "Continue", "Ok"}

\* u8 addition as the wrapping machine operation
U8Add(a, b) == (a + b) % (U8Max + 1)

\* (lo..hi).rev() collected into a Vec: hi-1, hi-2, ..., lo
RevRange(lo, hi) == [i \in 1..(hi - lo) |-> hi - i]

\* State::new
new(disks) ==
    [left |-> RevRange(1, U8Add(disks, 1)), center |-> <<>>, right |-> <<>>]

\* A State with nothing on it: what stands for `state` before State::new has
\* returned, and what is left when State::new panics
NoState == [left |-> <<>>, center |-> <<>>, right |-> <<>>]

\* State::new as built: with overflow checks (debug profile) `disks+1` panics
\* when it does not fit a u8, without them (release profile) it wraps
new_built(disks, overflow_checks) ==
    IF overflow_checks /\ disks + 1 > U8Max
    THEN [st |-> NoState, res |-> Panic]
    ELSE [st |-> new(disks), res |-> OkUnit]

\* State::get_tower
get_tower(st, peg) ==
    CASE peg = "Left" -> st.left
      [] peg = "Center" -> st.center
      [] peg = "Right" -> st.right

\* State::get_tower_mut, followed by a write of the whole tower
set_tower(st, peg, tower) ==
    CASE peg = "Left" -> [st EXCEPT !.left = tower]
      [] peg = "Center" -> [st EXCEPT !.center = tower]
      [] peg = "Right" -> [st EXCEPT !.right = tower]

\* State::pop_disk: the state afterwards and the Option<Disk> returned
pop_disk(st, peg) ==
    LET tower == get_tower(st, peg) IN
    IF tower = <<>>
    THEN [st |-> st, ret |-> None]
    ELSE [st |-> set_tower(st, peg, SubSeq(tower, 1, Len(tower) - 1)),
          ret |-> Some(tower[Len(tower)])]

\* State::peek_disk
peek_disk(st, peg) ==
    LET tower == get_tower(st, peg) IN
    IF tower = <<>> THEN None ELSE Some(tower[Len(tower)])

\* Mutant of push_disk: an empty peg counts as holding a disk of size 0
\* instead of u8::max_value(), so nothing can be pushed onto it
push_disk_ZeroSentinel(st, peg, disk) ==
    LET disk_size == disk
        top == peek_disk(st, peg)
        top_size == IF top = None THEN 0 ELSE top[1]
    IN  IF disk_size <= top_size
        THEN [st |-> set_tower(st, peg, Append(get_tower(st, peg), disk)),
              res |-> OkUnit]
        ELSE [st |-> st, res |-> UnstableStack(peg, disk)]

\* State::push_disk: the state afterwards and the Result returned
push_disk(st, peg, disk) ==
    LET disk_size == disk
        top == peek_disk(st, peg)
        top_size == IF top = None THEN U8Max ELSE top[1]
    IN  IF disk_size <= top_size
        THEN [st |-> set_tower(st, peg, Append(get_tower(st, peg), disk)),
              res |-> OkUnit]
        ELSE [st |-> st, res |-> UnstableStack(peg, disk)]

\* Mutant of done: only the start peg is looked at
done_LeftOnly(st) ==
    st.left = <<>>

\* State::done
done(st) ==
    st.left = <<>> /\ (st.right = <<>> \/ st.center = <<>>)

\* Mutant of can_move: the empty-source error names the destination peg
can_move_EmptyNamesTo(st, mov) ==
    LET from_top == peek_disk(st, mov.from) IN
    IF from_top /= None
    THEN LET from_sz == from_top[1]
             to_top == peek_disk(st, mov.to)
             to_sz == IF to_top = None THEN U8Max ELSE to_top[1]
         IN  IF from_sz <= to_sz
             THEN None
             ELSE Some(UnstableStack(mov.to, to_sz))
    ELSE Some(EmptyFrom(mov.to))

\* Mutant of can_move: any move from a peg that is not empty is allowed
can_move_NoSizeCheck(st, mov) ==
    IF peek_disk(st, mov.from) /= None
    THEN None
    ELSE Some(EmptyFrom(mov.from))

\* Mutant of can_move: a disk goes only onto a strictly larger disk
can_move_Strict(st, mov) ==
    LET from_top == peek_disk(st, mov.from) IN
    IF from_top /= None
    THEN LET from_sz == from_top[1]
             to_top == peek_disk(st, mov.to)
             to_sz == IF to_top = None THEN U8Max ELSE to_top[1]
         IN  IF from_sz < to_sz
             THEN None
             ELSE Some(UnstableStack(mov.to, to_sz))
    ELSE Some(EmptyFrom(mov.from))

\* State::can_move: None, or Some(error)
can_move(st, mov) ==
    LET from_top == peek_disk(st, mov.from) IN
    IF from_top /= None
    THEN LET from_sz == from_top[1]
             to_top == peek_disk(st, mov.to)
             to_sz == IF to_top = None THEN U8Max ELSE to_top[1]
         IN  IF from_sz <= to_sz
             THEN None
             ELSE Some(UnstableStack(mov.to, to_sz))
    ELSE Some(EmptyFrom(mov.from))

\* Mutant of do_move: the disk is moved without any stability check
do_move_Unchecked(st, mov) ==
    LET popped == pop_disk(st, mov.from) IN
    IF popped.ret = None
    THEN [st |-> st, res |-> EmptyFrom(mov.from)]
    ELSE LET after == set_tower(popped.st, mov.to,
                                Append(get_tower(popped.st, mov.to), popped.ret[1]))
         IN  [st |-> after, res |-> IF done(after) THEN Win ELSE Continue]

\* Mutant of do_move: pop first, push next, and no roll-back when the push fails
do_move_NoRollback(st, mov) ==
    LET popped == pop_disk(st, mov.from) IN
    IF popped.ret = None
    THEN [st |-> st, res |-> EmptyFrom(mov.from)]
    ELSE LET pushed == push_disk(popped.st, mov.to, popped.ret[1]) IN
         IF pushed.res /= OkUnit
         THEN [st |-> pushed.st, res |-> pushed.res]
         ELSE [st |-> pushed.st,
               res |-> IF done(pushed.st) THEN Win ELSE Continue]

\* Mutant of do_move: the win check is made before the disk is moved
do_move_StaleDone(st, mov) ==
    LET err == can_move(st, mov) IN
    IF err /= None
    THEN [st |-> st, res |-> err[1]]
    ELSE LET popped == pop_disk(st, mov.from)
             pushed == push_disk(popped.st, mov.to, popped.ret[1])
         IN  [st |-> pushed.st, res |-> IF done(st) THEN Win ELSE Continue]

\* State::do_move: the state afterwards and the Result returned
do_move(st, mov) ==
    LET err == can_move(st, mov) IN
    IF err /= None
    THEN [st |-> st, res |-> err[1]]
    ELSE LET popped == pop_disk(st, mov.from) IN
         IF popped.ret = None
         THEN [st |-> popped.st, res |-> Panic]
         ELSE LET pushed == push_disk(popped.st, mov.to, popped.ret[1]) IN
              IF pushed.res /= OkUnit
              THEN [st |-> pushed.st, res |-> Panic]
              ELSE [st |-> pushed.st,
                    res |-> IF done(pushed.st) THEN Win ELSE Continue]

\* first() of a tower as matched in do_auto: the bottom disk's size, or 0
largest_on(tower) == IF tower = <<>> THEN 0 ELSE tower[1]

\* cmp::max and the three-element .iter().max()
Max2(a, b) == IF a >= b THEN a ELSE b

\* do_auto: `largest`, the biggest bottom disk of the three pegs
largest_of(st) ==
    Max2(largest_on(st.left), Max2(largest_on(st.center), largest_on(st.right)))

\* Mutant of dest_peg: the destination is always Right
dest_peg_AlwaysRight(st) == "Right"

\* Mutant of dest_peg: the parity of the disks between the two largest is ignored
dest_peg_NoParity(st) ==
    LET largest_center == largest_on(st.center)
        largest_right == largest_on(st.right)
        largest_not_on_start == Max2(largest_center, largest_right)
    IN  IF largest_not_on_start /= 0 /\ largest_center = largest_not_on_start
        THEN "Center"
        ELSE "Right"

\* Mutant of dest_peg: the parity test is inverted
dest_peg_ParityFlipped(st) ==
    LET largest_center == largest_on(st.center)
        largest_right == largest_on(st.right)
        largest == largest_of(st)
        largest_not_on_start == Max2(largest_center, largest_right)
    IN  IF largest_not_on_start = 0
        THEN "Right"
        ELSE IF (largest_center = largest_not_on_start)
                  /= ((largest - largest_not_on_start) % 2 = 0)
             THEN "Center"
             ELSE "Right"

\* do_auto: the choice of dest_peg
dest_peg(st) ==
    LET largest_center == largest_on(st.center)
        largest_right == largest_on(st.right)
        largest == largest_of(st)
        largest_not_on_start == Max2(largest_center, largest_right)
    IN  IF largest_not_on_start = 0
        THEN "Right"
        ELSE IF (largest_center = largest_not_on_start)
                  /= ((largest - largest_not_on_start) % 2 = 1)
             THEN "Center"
             ELSE "Right"

\* .iter().position(|&d| d == disk) is Some(_)
Contains(tower, disk) == \E i \in 1..Len(tower) : tower[i] = disk

\* do_auto::find_disk
find_disk(st, disk) ==
    IF Contains(st.left, disk) THEN "Left"
    ELSE IF Contains(st.center, disk) THEN "Center"
    ELSE "Right"

\* Mutant of odd_one_out: the target is not changed
odd_one_out_KeepsTarget(p1, p2) == p2

\* Mutant of odd_one_out: the arm (Right, Center) is missing
odd_one_out_MissingArm(p1, p2) ==
    CASE p1 = "Left" /\ p2 = "Center" -> "Right"
      [] p1 = "Center" /\ p2 = "Left" -> "Right"
      [] p1 = "Left" /\ p2 = "Right" -> "Center"
      [] p1 = "Right" /\ p2 = "Left" -> "Center"
      [] p1 = "Center" /\ p2 = "Right" -> "Left"
      [] OTHER -> "unreachable"

\* do_auto::odd_one_out; "unreachable" stands for the unreachable!() arm
odd_one_out(p1, p2) ==
    CASE p1 = "Left" /\ p2 = "Center" -> "Right"
      [] p1 = "Center" /\ p2 = "Left" -> "Right"
      [] p1 = "Left" /\ p2 = "Right" -> "Center"
      [] p1 = "Right" /\ p2 = "Left" -> "Center"
      [] p1 = "Center" /\ p2 = "Right" -> "Left"
      [] p1 = "Right" /\ p2 = "Center" -> "Left"
      [] OTHER -> "unreachable"

\* do_auto: the loop `for sz in (1..largest+1).rev()`, over the sizes still to
\* visit, with the current value of move_to.  The next iteration's state, sizes
\* and move_to are bound as values (s, t, m) before the loop goes on.
RECURSIVE walk(_, _, _)
walk(st, szs, move_to) ==
    IF szs = <<>>
    THEN [st |-> st, res |-> AlreadyDone]
    ELSE LET sz == Head(szs)
             peg == find_disk(st, sz)
         IN  IF peg /= move_to
             THEN LET attempt == peek_disk(st, peg) = Some(sz)
                      r == do_move(st, Move(peg, move_to))
                      next_to == odd_one_out(peg, move_to)
                  IN  IF attempt /\ (IsOk(r.res) \/ r.res = Panic)
                      THEN r
                      ELSE IF next_to = "unreachable"
                      THEN [st |-> IF attempt THEN r.st ELSE st, res |-> Panic]
                      ELSE CHOOSE out \in
                               {walk(s, t, m) :
                                    s \in {IF attempt THEN r.st ELSE st},
                                    t \in {Tail(szs)},
                                    m \in {next_to}} : TRUE
             ELSE CHOOSE out \in
                      {walk(st, t, move_to) : t \in {Tail(szs)}} : TRUE

\* State::do_auto as built: the state afterwards and the Result returned.
\* `largest+1` (line 229) is u8 arithmetic: with overflow checks (debug
\* profile) it panics when it does not fit a u8, before any disk is touched;
\* without them (release profile) it wraps to 0 and the walk is over the
\* empty range 1..0
do_auto(st, overflow_checks) ==
    IF overflow_checks /\ largest_of(st) + 1 > U8Max
    THEN [st |-> st, res |-> Panic]
    ELSE walk(st, RevRange(1, U8Add(largest_of(st), 1)), dest_peg(st))

VARIABLES state, num_disks, last_call, phase, visited, disk_held

vars == <<state, num_disks, last_call, phase, visited, disk_held>>

NoMove == Move("-", "-")

Init ==
    /\ num_disks \in 1..MaxDisks
    /\ state = new(num_disks)
    /\ last_call = [op |-> "new", mov |-> NoMove, res |-> OkUnit, pre |-> state]
    /\ phase = "user"
    /\ visited = {}
    /\ disk_held = None

Alive == last_call.res /= Panic

\* const DISK_HT, DISK_WD, DISK_GAP
DISK_HT == 20
DISK_WD == 20
DISK_GAP == 5

\* main: the window's width and height
win_wd(disks) == DISK_WD * disks * 3 + DISK_GAP * 4
win_ht(disks) == DISK_HT * disks + (DISK_GAP + 1) * disks

\* peg_at_pos: the peg under a position of the window, if any
peg_at_pos(wd, ht, x, y) ==
    IF x < 0 \/ x >= wd \/ y < 0 \/ y >= ht
    THEN None
    ELSE IF x < wd \div 3 THEN Some("Left")
    ELSE IF x < (2 * wd) \div 3 THEN Some("Center")
    ELSE Some("Right")

\* Mouse positions of the events: outside the window, and the first and last
\* column of each third of it
MouseXs ==
    LET wd == win_wd(num_disks) IN
    {-1, 0, wd \div 3 - 1, wd \div 3, (2 * wd) \div 3 - 1, (2 * wd) \div 3,
     wd - 1, wd}
MouseYs == {-1, 0, win_ht(num_disks) - 1, win_ht(num_disks)}

\* main: event::MouseButtonPressed{button: Left, x, y}
MouseButtonPressed(x, y) ==
    /\ Alive
    /\ phase = "user"
    /\ LET from_peg == peg_at_pos(win_wd(num_disks), win_ht(num_disks), x, y) IN
       disk_held' =
           IF from_peg = None
           THEN None
           ELSE LET d == peek_disk(state, from_peg[1]) IN
                IF d = None THEN None ELSE Some(<<d[1], from_peg[1]>>)
    /\ UNCHANGED <<state, num_disks, last_call, phase, visited>>

\* main: event::MouseButtonReleased{button: Left, x, y}
MouseButtonReleased(x, y) ==
    /\ Alive
    /\ phase = "user"
    /\ LET to_peg == peg_at_pos(win_wd(num_disks), win_ht(num_disks), x, y) IN
       IF disk_held /= None /\ to_peg /= None
       THEN LET mov == Move(disk_held[1][2], to_peg[1])
                r == do_move(state, mov)
            IN  /\ state' = r.st
                /\ last_call' = [op |-> "do_move", mov |-> mov, res |-> r.res,
                                 pre |-> state]
       ELSE UNCHANGED <<state, last_call>>
    /\ disk_held' = None
    /\ UNCHANGED <<num_disks, phase, visited>>

\* main: event::KeyPressed{code: Key::A}, a call state.do_auto(), in either
\* build profile
DoAuto(overflow_checks) ==
    /\ Alive
    /\ phase = "user"
    /\ LET r == do_auto(state, overflow_checks) IN
       /\ state' = r.st
       /\ last_call' = [op |-> "do_auto", mov |-> NoMove, res |-> r.res, pre |-> state]
    /\ UNCHANGED <<num_disks, phase, visited, disk_held>>

\* main's event loop: mouse presses and releases, and KeyPressed A.  Every
\* call of do_move is the one a release makes: from the peg of the disk picked
\* up by the last press, to the peg under the release.
Next ==
    \/ \E x \in MouseXs, y \in MouseYs : MouseButtonPressed(x, y)
    \/ \E x \in MouseXs, y \in MouseYs : MouseButtonReleased(x, y)
    \/ \E overflow_checks \in BOOLEAN : DoAuto(overflow_checks)

Spec == Init /\ [][Next]_vars

\* The auto-solver alone: from State::new(n), only do_auto is ever called.
InitAuto ==
    /\ num_disks \in 1..MaxAutoDisks
    /\ state = new(num_disks)
    /\ last_call = [op |-> "new", mov |-> NoMove, res |-> OkUnit, pre |-> state]
    /\ phase = "auto"
    /\ visited = {state}
    /\ disk_held = None

\* A call state.do_auto(), in either build profile, in a run of do_auto calls
\* only; `visited` collects the states of the run
AutoStep ==
    /\ Alive
    /\ phase = "auto"
    /\ \E overflow_checks \in BOOLEAN :
          /\ state' = do_auto(state, overflow_checks).st
          /\ last_call' = [op |-> "do_auto", mov |-> NoMove,
                           res |-> do_auto(state, overflow_checks).res,
                           pre |-> state]
    /\ visited' = visited \cup {state'}
    /\ UNCHANGED <<num_disks, phase, disk_held>>

\* do_auto is called again and again (the user keeps pressing the key)
SpecAuto == InitAuto /\ [][AutoStep]_vars /\ WF_vars(AutoStep)

\* The user stops making moves of their own, with no disk picked up (every
\* release leaves disk_held = None): from here on only do_auto
Resume ==
    /\ Alive
    /\ phase = "user"
    /\ disk_held = None
    /\ phase' = "auto"
    /\ visited' = {state}
    /\ last_call' = [op |-> "resume", mov |-> NoMove, res |-> OkUnit, pre |-> state]
    /\ UNCHANGED <<state, num_disks, disk_held>>

NextResume ==
    \/ \E x \in MouseXs, y \in MouseYs : MouseButtonPressed(x, y)
    \/ \E x \in MouseXs, y \in MouseYs : MouseButtonReleased(x, y)
    \/ \E overflow_checks \in BOOLEAN : DoAuto(overflow_checks)
    \/ Resume
    \/ AutoStep

\* Any play, then do_auto called again and again
SpecResume == Init /\ [][NextResume]_vars /\ WF_vars(AutoStep)

\* main, lines 268-270: the disk count, from the first argument when it parses
\* as a u8 and from START_SIZE otherwise
unwrap_or(opt, default) == IF opt = None THEN default ELSE opt[1]

\* main before State::new: any first argument
InitMain ==
    /\ \E user_start_size \in {None} \cup {Some(n) : n \in 0..U8Max} :
          num_disks = unwrap_or(user_start_size, START_SIZE)
    /\ state = NoState
    /\ last_call = [op |-> "main", mov |-> NoMove, res |-> OkUnit, pre |-> NoState]
    /\ phase = "main"
    /\ visited = {}
    /\ disk_held = None

\* main, lines 271-274: a disk count of 0 is refused and main returns
MainRefuses ==
    /\ phase = "main"
    /\ num_disks = 0
    /\ phase' = "exit"
    /\ UNCHANGED <<state, num_disks, last_call, visited, disk_held>>

\* main, line 280: State::new(num_disks), in either build profile
MainNew(overflow_checks) ==
    /\ phase = "main"
    /\ num_disks /= 0
    /\ LET r == new_built(num_disks, overflow_checks) IN
       /\ state' = r.st
       /\ last_call' = [op |-> "new", mov |-> NoMove, res |-> r.res, pre |-> state]
    /\ phase' = "built"
    /\ UNCHANGED <<num_disks, visited, disk_held>>

NextNew ==
    \/ MainRefuses
    \/ \E overflow_checks \in BOOLEAN : MainNew(overflow_checks)

\* The start of main, up to the construction of the State
SpecNew == InitMain /\ [][NextNew]_vars

(***************************************************************************)
(* Vocabulary of the properties                                            *)
(***************************************************************************)

\* The set of disks on a tower
DisksOn(tower) == {tower[i] : i \in 1..Len(tower)}

\* Strictly decreasing from bottom to top
StrictlyDecreasing(tower) ==
    \A i \in 1..Len(tower), j \in 1..Len(tower) : i < j => tower[i] > tower[j]

\* The last call was do_move / do_auto
MoveCalled == last_call.op = "do_move"
AutoCalled == last_call.op = "do_auto"

\* Where disk e sits in st: the set of <<peg, index from the bottom>>
PositionsOf(st, e) ==
    {pi \in Peg \X (1..(Len(st.left) + Len(st.center) + Len(st.right))) :
        /\ pi[2] <= Len(get_tower(st, pi[1]))
        /\ get_tower(st, pi[1])[pi[2]] = e}

AllDisks(st) == DisksOn(st.left) \cup DisksOn(st.center) \cup DisksOn(st.right)

\* st2 is st1 after the top disk of `from` went to the top of `to`, every
\* other disk keeping its peg and its position
MovedTop(st1, st2, from, to) ==
    /\ get_tower(st1, from) /= <<>>
    /\ LET d == get_tower(st1, from)[Len(get_tower(st1, from))] IN
       /\ PositionsOf(st2, d) = {<<to, Len(get_tower(st2, to))>>}
       /\ \A e \in (AllDisks(st1) \cup AllDisks(st2)) \ {d} :
             PositionsOf(st2, e) = PositionsOf(st1, e)

\* C1: in every reachable state each peg is strictly decreasing from bottom
\* to top and the disks over the three pegs are exactly 1..N, each once.
C1_StackInvariant ==
    /\ \A p \in Peg : StrictlyDecreasing(get_tower(state, p))
    /\ DisksOn(state.left) \cup DisksOn(state.center) \cup DisksOn(state.right)
           = 1..num_disks
    /\ Len(state.left) + Len(state.center) + Len(state.right) = num_disks

\* C1 witness: after some moves the disks are spread over all three pegs.
C1_Witness ==
    /\ num_disks >= 3
    /\ \A p \in Peg : get_tower(state, p) /= <<>>
    /\ last_call.op \in {"do_move", "do_auto"}

\* C2: a do_move that returns EmptyFrom or UnstableStack leaves the three
\* pegs exactly as they were before the call: for the call a release has
\* made, and in every reachable state for each of the nine from/to pairs.
C2_FailedMoveUnchanged ==
    /\ (MoveCalled /\ last_call.res.kind \in {"EmptyFrom", "UnstableStack"})
          => state = last_call.pre
    /\ \A from \in Peg, to \in Peg :
          LET r == do_move(state, Move(from, to)) IN
          r.res.kind \in {"EmptyFrom", "UnstableStack"} => r.st = state

\* C2 witness: a move of a disk onto a smaller disk has been rejected.
C2_Witness ==
    /\ MoveCalled
    /\ last_call.res.kind = "UnstableStack"
    /\ get_tower(last_call.pre, last_call.mov.from) /= <<>>
    /\ get_tower(last_call.pre, last_call.mov.to) /= <<>>

\* C3: do_move from an empty source peg returns EmptyFrom(mov.from) for every
\* destination peg and changes nothing: for the call a release has made, and
\* in every reachable state for each empty peg and each destination.
C3_EmptyFrom ==
    /\ (MoveCalled /\ get_tower(last_call.pre, last_call.mov.from) = <<>>)
          => /\ last_call.res = EmptyFrom(last_call.mov.from)
             /\ state = last_call.pre
    /\ \A from \in Peg, to \in Peg :
          get_tower(state, from) = <<>>
             => LET r == do_move(state, Move(from, to)) IN
                r.res = EmptyFrom(from) /\ r.st = state

\* C3 witness: a move from an empty peg onto itself has been attempted (the
\* disk picked up was moved away by do_auto before the release).
C3_Witness ==
    /\ MoveCalled
    /\ get_tower(last_call.pre, last_call.mov.from) = <<>>
    /\ last_call.mov.to = last_call.mov.from

\* C4: a do_move rejected because the top disk d of mov.from is larger than
\* the top disk of mov.to returns UnstableStack(mov.to, d).
C4_UnstableCarriesMovedDisk ==
    (MoveCalled /\ last_call.res.kind = "UnstableStack")
        => last_call.res =
               UnstableStack(last_call.mov.to,
                             peek_disk(last_call.pre, last_call.mov.from)[1])

\* C5: done() is true iff Left is empty and exactly one of Center and Right
\* holds all N disks.
C5_DoneIffSolved ==
    done(state) <=>
        /\ state.left = <<>>
        /\ (DisksOn(state.center) = 1..num_disks)
               /= (DisksOn(state.right) = 1..num_disks)

\* C5 witness: a solved puzzle of at least two disks, all of them on Center.
C5_Witness ==
    /\ num_disks >= 2
    /\ done(state)
    /\ DisksOn(state.center) = 1..num_disks

\* C6: a successful do_move returns Win iff the state after it is solved and
\* Continue otherwise, and exactly the top disk of mov.from has gone to the
\* top of mov.to, no other disk changing position.
C6_SuccessfulMove ==
    /\ (MoveCalled /\ IsOk(last_call.res))
          => /\ last_call.res = (IF done(state) THEN Win ELSE Continue)
             /\ MovedTop(last_call.pre, state,
                         last_call.mov.from, last_call.mov.to)
    /\ \A from \in Peg, to \in Peg :
          LET r == do_move(state, Move(from, to)) IN
          IsOk(r.res)
             => /\ r.res = (IF done(r.st) THEN Win ELSE Continue)
                /\ MovedTop(state, r.st, from, to)

\* C6 witness: a winning user move of a puzzle with at least two disks.
C6_Witness ==
    /\ MoveCalled
    /\ last_call.res = Win
    /\ num_disks >= 2
    /\ ~done(last_call.pre)

\* C7: from State::new(N), repeated do_auto calls reach a solved state, and
\* every call returns Continue or Win, or AlreadyDone once the state is
\* solved (never UnstableStack, EmptyFrom, nor a panic).
C7_AutoSolvesFromStart ==
    /\ <>done(state)
    /\ [](AutoCalled => last_call.res \in {Continue, Win, AlreadyDone})
    /\ [](AutoCalled /\ last_call.res = AlreadyDone => done(last_call.pre))

\* C7 witness: a run of do_auto calls alone has won a puzzle of >= 3 disks.
C7_Witness ==
    /\ phase = "auto"
    /\ num_disks >= 3
    /\ AutoCalled
    /\ last_call.res = Win
    /\ done(state)

\* C8: from every state reachable by any play, repeated do_auto calls reach a
\* solved state, and no call before that leads to a state already seen in
\* the run.
C8_AutoSolvesFromAnywhere ==
    /\ [](phase = "auto" => <>done(state))
    /\ [][(phase = "auto" /\ ~done(state)) => state' \notin visited]_vars

\* C8 witness: a run of do_auto calls that passed through a state off the
\* solver's own path (largest disk on Center, Left not empty) has won.
C8_Witness ==
    /\ phase = "auto"
    /\ done(state)
    /\ num_disks >= 3
    /\ \E v \in visited :
          /\ v.left /= <<>>
          /\ v.center /= <<>>
          /\ v.center[1] = num_disks

\* C9: do_auto returns AlreadyDone iff the state was solved before the call,
\* and then leaves the state unchanged.
C9_AlreadyDoneIffSolved ==
    AutoCalled
        => /\ (last_call.res = AlreadyDone) <=> done(last_call.pre)
           /\ last_call.res = AlreadyDone => state = last_call.pre

\* C9 witness: do_auto has been called on a solved state.
C9_Witness ==
    /\ AutoCalled
    /\ done(last_call.pre)
    /\ num_disks >= 2

\* C10: a do_auto call that returns Ok changes the state by exactly one legal
\* move: one top disk goes onto a different peg that was empty or had a
\* larger top disk, every other disk keeps its peg and position.
C10_AutoIsOneLegalMove ==
    (AutoCalled /\ IsOk(last_call.res))
        => \E from \in Peg, to \in Peg :
              /\ from /= to
              /\ MovedTop(last_call.pre, state, from, to)
              /\ \/ get_tower(last_call.pre, to) = <<>>
                 \/ peek_disk(last_call.pre, to)[1]
                        > peek_disk(last_call.pre, from)[1]

\* C10 witness: do_auto moved a disk after an earlier attempt of the same
\* walk was rejected (the largest disk was on top of its peg, off the
\* destination, and is still where it was).
C10_Witness ==
    /\ AutoCalled
    /\ IsOk(last_call.res)
    /\ \E p \in Peg :
          /\ p /= dest_peg(last_call.pre)
          /\ get_tower(last_call.pre, p) = <<num_disks>>
          /\ get_tower(state, p) = <<num_disks>>

\* The tower n, n-1, ..., 1, bottom first
FullTower(n) == [i \in 1..n |-> n + 1 - i]

\* C11: for every disk count 1..255 the driver can pass, State::new(n) gives
\* Left = [n, n-1, ..., 1] with Center and Right empty, and computing the
\* range 1..n+1 does not overflow.
C11_NewBuildsFullTower ==
    (phase = "built" /\ last_call.op = "new")
        => /\ last_call.res /= Panic
           /\ state = [left |-> FullTower(num_disks),
                       center |-> <<>>, right |-> <<>>]

LargestOn(st, p) == get_tower(st, p) /= <<>> /\ get_tower(st, p)[1] = num_disks
AllOn(st, p) == Len(get_tower(st, p)) = num_disks

\* C13: when the largest disk is on Center or on Right, do_auto takes that peg
\* as the destination: no do_auto call moves the largest disk, and repeated
\* do_auto calls end solved with all the disks on that peg; from the initial
\* state repeated do_auto calls end with all the disks on Right.  (`visited`
\* holds every state of the current run of do_auto calls.)
C13_DestinationHoldsLargest ==
    /\ [](AutoCalled =>
            \A p \in {"Center", "Right"} :
               LargestOn(last_call.pre, p)
                  => dest_peg(last_call.pre) = p /\ LargestOn(state, p))
    /\ [](phase = "auto" => <>done(state))
    /\ [](\A v \in visited :
             (phase = "auto" /\ done(state))
                => /\ \A p \in {"Center", "Right"} :
                         LargestOn(v, p) => AllOn(state, p)
                   /\ v = new(num_disks) => AllOn(state, "Right"))

\* C13 witness: a run of do_auto calls that started unsolved with the largest
\* disk on Center has ended with all the disks on Center.
C13_Witness ==
    /\ phase = "auto"
    /\ num_disks >= 3
    /\ done(state)
    /\ AllOn(state, "Center")
    /\ \E v \in visited : LargestOn(v, "Center") /\ ~done(v) /\ v.right /= <<>>

\* 2^n
RECURSIVE Pow2(_)
Pow2(n) == IF n = 0 THEN 1 ELSE 2 * Pow2(n - 1)

\* C14: from State::new(N) the do_auto calls are the optimal solution: calls
\* 1 .. 2^N - 2 return Continue and call 2^N - 1 returns Win.  Every call made
\* before the puzzle is solved leads to a state not seen before in the run, so
\* the calls made so far number Cardinality(visited) - 1.
C14_AutoIsOptimal ==
    /\ [][(phase = "auto" /\ ~done(state)) => state' \notin visited]_vars
    /\ [](AutoCalled =>
            LET calls == Cardinality(visited) - 1 IN
            /\ calls <= Pow2(num_disks) - 1
            /\ (last_call.res = Continue) <=> (calls < Pow2(num_disks) - 1)
            /\ (calls = Pow2(num_disks) - 1)
                   => /\ last_call.res \in {Win, AlreadyDone}
                      /\ done(state))
    /\ [](AutoCalled /\ last_call.res = Win => ~done(last_call.pre))

\* C14 witness: the 2^N - 1 = 15th call on four disks has returned Win.
C14_Witness ==
    /\ phase = "auto"
    /\ num_disks = 4
    /\ AutoCalled
    /\ last_call.res = Win
    /\ Cardinality(visited) = 16

\* C15: can_move predicts do_move: for every from/to pair it returns None
\* exactly when do_move returns Ok, and otherwise the error do_move returns
\* (can_move takes &self: it has no state to change).
C15_CanMovePredictsDoMove ==
    /\ MoveCalled =>
          LET predicted == can_move(last_call.pre, last_call.mov) IN
          /\ (predicted = None) <=> IsOk(last_call.res)
          /\ predicted /= None => last_call.res = predicted[1]
    /\ \A from \in Peg, to \in Peg :
          LET predicted == can_move(state, Move(from, to))
              r == do_move(state, Move(from, to))
          IN  /\ (predicted = None) <=> IsOk(r.res)
              /\ predicted /= None => r.res = predicted[1] /\ r.st = state

\* C15 witness: can_move predicted an UnstableStack error, which do_move
\* returned, and in the same state allows another move between two pegs.
C15_Witness ==
    /\ MoveCalled
    /\ last_call.res.kind = "UnstableStack"
    /\ can_move(last_call.pre, last_call.mov) = Some(last_call.res)
    /\ \E from \in Peg, to \in Peg :
          from /= to /\ can_move(state, Move(from, to)) = None

\* C16: do_move never panics: whenever can_move returns None, the pop from
\* mov.from yields a disk and the push onto mov.to returns Ok, for every
\* from/to pair, from = to included.
C16_DoMoveNeverPanics ==
    /\ MoveCalled => last_call.res /= Panic
    /\ \A from \in Peg, to \in Peg :
          can_move(state, Move(from, to)) = None
             => LET popped == pop_disk(state, from) IN
                /\ popped.ret /= None
                /\ push_disk(popped.st, to, popped.ret[1]).res = OkUnit
                /\ do_move(state, Move(from, to)).res /= Panic

\* C16 witness: do_move has gone through its pop and push with from = to, and
\* with from /= to onto a peg that was not empty.
C16_Witness ==
    /\ MoveCalled
    /\ IsOk(last_call.res)
    /\ last_call.mov.from /= last_call.mov.to
    /\ get_tower(last_call.pre, last_call.mov.to) /= <<>>
    /\ \E p \in Peg : IsOk(do_move(state, Move(p, p)).res)

\* C17: a move whose source and destination are the same non-empty peg is
\* accepted: do_move returns Ok (Win if the state is solved, Continue
\* otherwise) and leaves the three pegs as they were.
C17_SamePegMoveAccepted ==
    /\ (/\ MoveCalled
        /\ last_call.mov.from = last_call.mov.to
        /\ get_tower(last_call.pre, last_call.mov.from) /= <<>>)
          => /\ last_call.res = (IF done(last_call.pre) THEN Win ELSE Continue)
             /\ state = last_call.pre
    /\ \A p \in Peg :
          get_tower(state, p) /= <<>>
             => LET r == do_move(state, Move(p, p)) IN
                /\ r.res = (IF done(state) THEN Win ELSE Continue)
                /\ r.st = state

\* C17 witness: a move from a peg onto itself in a solved state returned Win.
C17_Witness ==
    /\ MoveCalled
    /\ last_call.mov.from = last_call.mov.to
    /\ last_call.res = Win
    /\ num_disks >= 2
    /\ state = last_call.pre

\* C18: for every ordering of the events between a press and its release
\* (KeyPressed A included), whenever the release performs a move, the disk
\* that moves is the disk recorded in disk_held at the press, taken from the
\* peg recorded at the press.
C18_ReleaseMovesHeldDisk ==
    [][\A x \in MouseXs, y \in MouseYs :
          (/\ MouseButtonReleased(x, y)
           /\ disk_held /= None
           /\ last_call'.op = "do_move"
           /\ last_call'.pre = state
           /\ IsOk(last_call'.res)
           /\ state' /= state
           /\ peg_at_pos(win_wd(num_disks), win_ht(num_disks), x, y) /= None)
             => /\ last_call'.mov.from = disk_held[1][2]
                /\ peek_disk(state, last_call'.mov.from) = Some(disk_held[1][1])
                /\ peek_disk(state', last_call'.mov.to) = Some(disk_held[1][1])]_vars

\* C19: no do_auto call on a reachable state runs into odd_one_out's
\* unreachable!() arm (it is invoked with two distinct pegs only), and for
\* two distinct pegs odd_one_out returns the third peg, whatever their order.
C19_OddOneOutIsThirdPeg ==
    /\ AutoCalled => last_call.res /= Panic
    /\ \A overflow_checks \in BOOLEAN :
          do_auto(state, overflow_checks).res /= Panic
    /\ \A p1 \in Peg : \A p2 \in Peg \ {p1} :
          /\ odd_one_out(p1, p2) \in Peg \ {p1, p2}
          /\ odd_one_out(p1, p2) = odd_one_out(p2, p1)

\* C19 witness: do_auto has moved the smallest disk of at least three stacked
\* on Left, after odd_one_out changed the target for each disk above it.
C19_Witness ==
    /\ AutoCalled
    /\ IsOk(last_call.res)
    /\ num_disks >= 3
    /\ last_call.pre = new(num_disks)
    /\ state.left = SubSeq(last_call.pre.left, 1, num_disks - 1)

====
